---- MODULE Spec2Model ----
(***************************************************************************)
(* Campus-Navigator: the weighted graph (graph.h), Dijkstra's algorithm    *)
(* and the meeting-point application loop (application.cpp).               *)
(*                                                                         *)
(* Doubles are modelled by integers: every weight and coordinate used is a *)
(* small integer, so sums and comparisons are exact, and INF stands for    *)
(* numeric_limits<double>::max(), larger than every path length.           *)
(***************************************************************************)
EXTENDS Integers, Sequences, FiniteSets, Bags, TLC

VARIABLES
  G,          \* the graph object
  call,       \* graph API: the last call, its arguments and what it returned
  dj,         \* the activation of Dijkstra
  shortest,   \* auxiliary: the least path weights from dj.startV in G
  Nodes,      \* map<long long, Coordinates>
  Footways,   \* vector<FootwayInfo>
  Buildings,  \* vector<BuildingInfo>
  q,          \* the locals of one pass of the application loop
  firstInf,   \* the queue order of the build: firstInf[s] is the vertex whose
              \* INF entry top() yields first in a call with startV = s
  main        \* the position of main in building the graph

vars == <<G, call, dj, shortest, Nodes, Footways, Buildings, q, firstInf, main>>

(***************************************************************************)
(* Bounds                                                                  *)
(***************************************************************************)
MaxVertexId == 2      \* graph API: vertex keys are 1..MaxVertexId
MaxGEdges == 2        \* graph API: addEdge inserts while edgeCount < MaxGEdges
NumV == 3             \* Dijkstra: the graphs have the vertices 1..NumV
MaxDjEdges == 3       \* Dijkstra: the graphs have at most MaxDjEdges edges
NumNodes == 3         \* application: the map has the nodes 1..NumNodes
MaxFootways == 2      \* application: the map has 1..MaxFootways footways
NumBuildings == 3     \* application: the map has NumBuildings buildings

VertexIds == 1..MaxVertexId
Weights == 0..1        \* the edge weights used
CallerWeights == {-1}  \* what the caller's variable holds when getWeight is called

INF == 1000000

Min(S) == CHOOSE x \in S : \A y \in S : x <= y

(***************************************************************************)
(* graph<VertexT, WeightT>  (graph.h)                                      *)
(* A graph object is the record of its four fields.  edgeMap is a function *)
(* whose domain is the set of keys of the unordered_map; its values are    *)
(* the vectors of EdgeData.                                                *)
(***************************************************************************)
EdgeData(to, weight) == [toVert |-> to, toWeight |-> weight]

NewGraph == [vertCount |-> 0, edgeCount |-> 0, Vertices |-> <<>>, edgeMap |-> <<>>]

NumVertices(g) == g.vertCount

NumEdges(g) == g.edgeCount

\* edgeMap.count(v)
HasVertex(g, v) == v \in DOMAIN g.edgeMap

\* indices of the entries of an adjacency vector that lead to `to`
EdgeIndices(vec, to) == {i \in 1..Len(vec) : vec[i].toVert = to}

\* addVertex as it would be if the blank vector were stored before the test
\* for an existing vertex
addVertex_ResetsExisting(g, v) ==
  IF HasVertex(g, v)
    THEN [ret |-> FALSE, g |-> [g EXCEPT !.edgeMap[v] = <<>>]]
    ELSE [ret |-> TRUE,
          g |-> [vertCount |-> g.vertCount + 1,
                 edgeCount |-> g.edgeCount,
                 Vertices |-> Append(g.Vertices, v),
                 edgeMap |-> (v :> <<>>) @@ g.edgeMap]]

\* bool addVertex(v): the returned flag and the graph after the call
addVertex(g, v) ==
  IF HasVertex(g, v)
    THEN [ret |-> FALSE, g |-> g]
    ELSE [ret |-> TRUE,
          g |-> [vertCount |-> g.vertCount + 1,
                 edgeCount |-> g.edgeCount,
                 Vertices |-> Append(g.Vertices, v),
                 edgeMap |-> (v :> <<>>) @@ g.edgeMap]]

\* addEdge as it would be if an overwrite also raised edgeCount
addEdge_CountsOverwrite(g, from, to, weight) ==
  IF ~HasVertex(g, from) \/ ~HasVertex(g, to)
    THEN [ret |-> FALSE, g |-> g]
    ELSE LET searchVector == g.edgeMap[from]
             found == EdgeIndices(searchVector, to)
         IN IF found # {}
              THEN [ret |-> TRUE,
                    g |-> [g EXCEPT !.edgeMap[from][Min(found)].toWeight = weight,
                                    !.edgeCount = g.edgeCount + 1]]
              ELSE [ret |-> TRUE,
                    g |-> [g EXCEPT !.edgeMap[from] = Append(searchVector, EdgeData(to, weight)),
                                    !.edgeCount = g.edgeCount + 1]]

\* addEdge as it would be if only `from` were looked up before inserting
addEdge_ChecksFromOnly(g, from, to, weight) ==
  IF ~HasVertex(g, from)
    THEN [ret |-> FALSE, g |-> g]
    ELSE LET searchVector == g.edgeMap[from]
             found == EdgeIndices(searchVector, to)
         IN IF found # {}
              THEN [ret |-> TRUE,
                    g |-> [g EXCEPT !.edgeMap[from][Min(found)].toWeight = weight]]
              ELSE [ret |-> TRUE,
                    g |-> [g EXCEPT !.edgeMap[from] = Append(searchVector, EdgeData(to, weight)),
                                    !.edgeCount = g.edgeCount + 1]]

\* addEdge as it would be without the scan for an existing edge
addEdge_AppendsDuplicate(g, from, to, weight) ==
  IF ~HasVertex(g, from) \/ ~HasVertex(g, to)
    THEN [ret |-> FALSE, g |-> g]
    ELSE [ret |-> TRUE,
          g |-> [g EXCEPT !.edgeMap[from] = Append(g.edgeMap[from], EdgeData(to, weight)),
                          !.edgeCount = g.edgeCount + 1]]

\* bool addEdge(from, to, weight): the returned flag and the graph after the call
addEdge(g, from, to, weight) ==
  IF ~HasVertex(g, from) \/ ~HasVertex(g, to)
    THEN [ret |-> FALSE, g |-> g]
    ELSE LET searchVector == g.edgeMap[from]
             found == EdgeIndices(searchVector, to)
         IN IF found # {}
              THEN LET i == Min(found)
                   IN [ret |-> TRUE,
                       g |-> [g EXCEPT !.edgeMap[from][i].toWeight = weight]]
              ELSE [ret |-> TRUE,
                    g |-> [g EXCEPT !.edgeMap[from] = Append(searchVector, EdgeData(to, weight)),
                                    !.edgeCount = g.edgeCount + 1]]

\* getWeight as it would be if it cleared the reference argument when the
\* scan finds no edge
getWeight_ZeroOnMiss(g, from, to, weight) ==
  IF ~HasVertex(g, from) \/ ~HasVertex(g, to)
    THEN [ret |-> FALSE, weight |-> weight]
    ELSE LET searchVector == g.edgeMap[from]
             found == EdgeIndices(searchVector, to)
         IN IF found # {}
              THEN [ret |-> TRUE, weight |-> searchVector[Min(found)].toWeight]
              ELSE [ret |-> FALSE, weight |-> 0]

\* bool getWeight(from, to, weight&): the returned flag and the value of the
\* reference argument after the call
getWeight(g, from, to, weight) ==
  IF ~HasVertex(g, from) \/ ~HasVertex(g, to)
    THEN [ret |-> FALSE, weight |-> weight]
    ELSE LET searchVector == g.edgeMap[from]
             found == EdgeIndices(searchVector, to)
         IN IF found # {}
              THEN [ret |-> TRUE, weight |-> searchVector[Min(found)].toWeight]
              ELSE [ret |-> FALSE, weight |-> weight]

\* set<VertexT> neighbors(v)
neighbors(g, v) ==
  IF ~HasVertex(g, v)
    THEN {}
    ELSE {g.edgeMap[v][i].toVert : i \in 1..Len(g.edgeMap[v])}

\* vector<VertexT> getVertices()
getVertices(g) == g.Vertices

(***************************************************************************)
(* Dijkstra  (application.cpp)                                             *)
(* An activation of Dijkstra is the record of its parameters and locals.   *)
(* unvisitedQ is the bag of the (vertex, key) pairs in the priority queue; *)
(* prioritize compares keys only, so top() may be any entry whose key is   *)
(* minimal.  path is the caller's vector, ret the returned double.         *)
(***************************************************************************)
RECURSIVE PushAll(_, _, _)
\* the pushes of the set-up loop over graphVertices[i..]
PushAll(graphVertices, i, Q) ==
  IF i > Len(graphVertices)
    THEN Q
    ELSE PushAll(graphVertices, i + 1, Q (+) SetToBag({<<graphVertices[i], INF>>}))

\* set-up of the containers and the push of startV; distances.at(startV)
\* throws out_of_range when startV is not a vertex of the graph.  pushed
\* counts the calls of unvisitedQ.push made so far.
DijkstraSetup(g, startV, endV, path) ==
  LET graphVertices == getVertices(g)
      vs == {graphVertices[i] : i \in 1..Len(graphVertices)}
  IN IF startV \notin vs
       THEN [pc |-> "thrown", startV |-> startV, endV |-> endV,
             unvisitedQ |-> PushAll(graphVertices, 1, EmptyBag),
             distances |-> [v \in vs |-> INF],
             predecessors |-> [v \in vs |-> -1],
             visitedVertices |-> {}, currentV |-> 0, path |-> path, ret |-> 0,
             pushed |-> Len(graphVertices)]
       ELSE [pc |-> "loop", startV |-> startV, endV |-> endV,
             unvisitedQ |-> PushAll(graphVertices, 1, EmptyBag) (+) SetToBag({<<startV, 0>>}),
             distances |-> [v \in vs |-> IF v = startV THEN 0 ELSE INF],
             predecessors |-> [v \in vs |-> -1],
             visitedVertices |-> {}, currentV |-> 0, path |-> path, ret |-> 0,
             pushed |-> Len(graphVertices) + 1]

\* top() as it would be if prioritize compared with < (a max-heap)
TopEntries_Reversed(Q) == {e \in BagToSet(Q) : \A f \in BagToSet(Q) : e[2] >= f[2]}

\* the entries unvisitedQ.top() may yield
TopEntries(Q) == {e \in BagToSet(Q) : \A f \in BagToSet(Q) : e[2] <= f[2]}

RECURSIVE Relax_NonStrict(_, _, _)
\* Relax as it would be if an equally long path also replaced the distance
Relax_NonStrict(g, d, adjacentVertices) ==
  IF adjacentVertices = {}
    THEN d
    ELSE LET adjV == Min(adjacentVertices)
             edgeWeight == getWeight(g, d.currentV, adjV, 0).weight
             altPathDistance == d.distances[d.currentV] + edgeWeight
             d1 == IF altPathDistance <= d.distances[adjV]
                     THEN [d EXCEPT !.distances[adjV] = altPathDistance,
                                    !.predecessors[adjV] = d.currentV,
                                    !.unvisitedQ = d.unvisitedQ (+) SetToBag({<<adjV, altPathDistance>>}),
                                    !.pushed = d.pushed + 1]
                     ELSE d
         IN CHOOSE r \in {Relax_NonStrict(g, x, adjacentVertices \ {adjV}) : x \in {d1}} : TRUE

RECURSIVE Relax(_, _, _)
\* the loop over adjacentVertices, in the order of the set (ascending); the
\* state after one neighbour is a value (the one element of a set) before
\* the next neighbour is taken
Relax(g, d, adjacentVertices) ==
  IF adjacentVertices = {}
    THEN d
    ELSE LET adjV == Min(adjacentVertices)
             edgeWeight == getWeight(g, d.currentV, adjV, 0).weight
             altPathDistance == d.distances[d.currentV] + edgeWeight
             d1 == IF altPathDistance < d.distances[adjV]
                     THEN [d EXCEPT !.distances[adjV] = altPathDistance,
                                    !.predecessors[adjV] = d.currentV,
                                    !.unvisitedQ = d.unvisitedQ (+) SetToBag({<<adjV, altPathDistance>>}),
                                    !.pushed = d.pushed + 1]
                     ELSE d
         IN CHOOSE r \in {Relax(g, x, adjacentVertices \ {adjV}) : x \in {d1}} : TRUE

\* DijkstraIteration as it would be if an entry of a visited vertex ended the
\* loop (break where the code has continue)
DijkstraIteration_StopsAtStale(g, d, top) ==
  LET popped == [d EXCEPT !.currentV = top[1],
                          !.unvisitedQ = d.unvisitedQ (-) SetToBag({top})]
      again(x) == [x EXCEPT !.pc = IF x.unvisitedQ = EmptyBag THEN "after" ELSE "loop"]
  IN IF popped.distances[popped.currentV] = INF
       THEN [popped EXCEPT !.pc = "after"]
       ELSE IF popped.currentV \in popped.visitedVertices
         THEN [popped EXCEPT !.pc = "after"]
         ELSE LET visited == [popped EXCEPT !.visitedVertices = @ \cup {popped.currentV}]
                  relaxed == Relax(g, visited, neighbors(g, visited.currentV))
              IN IF relaxed.currentV = relaxed.endV
                   THEN [relaxed EXCEPT !.pc = "after"]
                   ELSE again(relaxed)

\* DijkstraIteration as it would be if the entry read by top() were not
\* removed from the queue (no pop)
DijkstraIteration_TopWithoutPop(g, d, top) ==
  LET popped == [d EXCEPT !.currentV = top[1]]
      again(x) == [x EXCEPT !.pc = IF x.unvisitedQ = EmptyBag THEN "after" ELSE "loop"]
  IN IF popped.distances[popped.currentV] = INF
       THEN [popped EXCEPT !.pc = "after"]
       ELSE IF popped.currentV \in popped.visitedVertices
         THEN again(popped)
         ELSE LET visited == [popped EXCEPT !.visitedVertices = @ \cup {popped.currentV}]
                  relaxed == Relax(g, visited, neighbors(g, visited.currentV))
              IN IF relaxed.currentV = relaxed.endV
                   THEN [relaxed EXCEPT !.pc = "after"]
                   ELSE again(relaxed)

\* one iteration of the while loop when top() yields `top`; the loop is left
\* by a break or when the queue has become empty
DijkstraIteration(g, d, top) ==
  LET popped == [d EXCEPT !.currentV = top[1],
                          !.unvisitedQ = d.unvisitedQ (-) SetToBag({top})]
      again(x) == [x EXCEPT !.pc = IF x.unvisitedQ = EmptyBag THEN "after" ELSE "loop"]
  IN IF popped.distances[popped.currentV] = INF
       THEN [popped EXCEPT !.pc = "after"]
       ELSE IF popped.currentV \in popped.visitedVertices
         THEN again(popped)
         ELSE LET visited == [popped EXCEPT !.visitedVertices = @ \cup {popped.currentV}]
                  relaxed == Relax(g, visited, neighbors(g, visited.currentV))
              IN IF relaxed.currentV = relaxed.endV
                   THEN [relaxed EXCEPT !.pc = "after"]
                   ELSE again(relaxed)

RECURSIVE BackTrace(_, _, _, _)
\* the walk along the predecessors; fuel bounds the walk, which does not end
\* when the predecessors form a cycle
BackTrace(predecessors, backTrace, path, fuel) ==
  IF backTrace = -1
    THEN [ends |-> TRUE, path |-> path]
    ELSE IF fuel = 0
      THEN [ends |-> FALSE, path |-> path]
      ELSE BackTrace(predecessors, predecessors[backTrace], Append(path, backTrace), fuel - 1)

\* DijkstraReturn as it would be if the back trace began at the predecessor
\* of endV without pushing endV first
DijkstraReturn_OmitsEndV(d) ==
  IF d.currentV # d.endV
    THEN [d EXCEPT !.pc = "done", !.ret = -1]
    ELSE LET walk == BackTrace(d.predecessors, d.predecessors[d.endV],
                               d.path, Cardinality(DOMAIN d.predecessors))
         IN IF walk.ends
              THEN [d EXCEPT !.pc = "done", !.path = walk.path, !.ret = d.distances[d.endV]]
              ELSE [d EXCEPT !.pc = "spins", !.path = walk.path]

\* DijkstraReturn as it would be if endV were pushed before the test of currentV
DijkstraReturn_PushesBeforeTest(d) ==
  IF d.currentV # d.endV
    THEN [d EXCEPT !.pc = "done", !.path = Append(d.path, d.endV), !.ret = -1]
    ELSE LET walk == BackTrace(d.predecessors, d.predecessors[d.endV],
                               Append(d.path, d.endV), Cardinality(DOMAIN d.predecessors))
         IN IF walk.ends
              THEN [d EXCEPT !.pc = "done", !.path = walk.path, !.ret = d.distances[d.endV]]
              ELSE [d EXCEPT !.pc = "spins", !.path = walk.path]

\* the code after the loop: the test of currentV, the back trace, the return
DijkstraReturn(d) ==
  IF d.currentV # d.endV
    THEN [d EXCEPT !.pc = "done", !.ret = -1]
    ELSE LET walk == BackTrace(d.predecessors, d.predecessors[d.endV],
                               Append(d.path, d.endV), Cardinality(DOMAIN d.predecessors))
         IN IF walk.ends
              THEN [d EXCEPT !.pc = "done", !.path = walk.path, !.ret = d.distances[d.endV]]
              ELSE [d EXCEPT !.pc = "spins", !.path = walk.path]

(***************************************************************************)
(* The geodesic primitives declared in dist.h.  Coordinates are points of  *)
(* an integer grid with even latitudes and longitudes; the distance is the *)
(* grid distance and the center is the exact midpoint.                     *)
(***************************************************************************)
Abs(x) == IF x < 0 THEN -x ELSE x

Coordinates(id, lat, lon) == [ID |-> id, Lat |-> lat, Lon |-> lon]

distBetween2Points(lat1, long1, lat2, long2) == Abs(lat1 - lat2) + Abs(long1 - long2)

centerBetween2Points(lat1, long1, lat2, long2) ==
  Coordinates(0, (lat1 + lat2) \div 2, (long1 + long2) \div 2)

(***************************************************************************)
(* Dijkstra as the application calls it: every result the call can have,   *)
(* over the orders in which the queue may yield equal keys.  stoppedAt is  *)
(* the vertex whose INF entry ended the loop, 0 when the loop ended        *)
(* otherwise.                                                              *)
(***************************************************************************)
RECURSIVE DijkstraRuns(_, _)
DijkstraRuns(g, d) ==
  IF d.pc = "loop"
    THEN UNION {DijkstraRuns(g, DijkstraIteration(g, d, top)) : top \in TopEntries(d.unvisitedQ)}
    ELSE IF d.pc = "after" THEN {DijkstraReturn(d)} ELSE {d}

Dijkstra(g, startV, endV, path) ==
  {[ret |-> d.ret, path |-> d.path,
    stoppedAt |-> IF d.currentV \in DOMAIN d.distances /\ d.distances[d.currentV] = INF
                    THEN d.currentV ELSE 0] :
     d \in DijkstraRuns(g, DijkstraSetup(g, startV, endV, path))}

(***************************************************************************)
(* getCenterBuildingIndex and getClosestNode  (application.cpp)            *)
(* Vectors are sequences, so the C++ index i is the index i + 1 here; the  *)
(* invalid index stays -1.                                                 *)
(***************************************************************************)
RECURSIVE CenterScan(_, _, _, _, _, _)
\* the loop over Buildings from index i on
CenterScan(buildings, midpoint, invalidCenters, i, min, minIndex) ==
  IF i > Len(buildings)
    THEN minIndex
    ELSE IF buildings[i].Fullname \in invalidCenters
      THEN CenterScan(buildings, midpoint, invalidCenters, i + 1, min, minIndex)
      ELSE LET distance == distBetween2Points(midpoint.Lat, midpoint.Lon,
                                              buildings[i].Coords.Lat, buildings[i].Coords.Lon)
           IN IF distance < min
                THEN CenterScan(buildings, midpoint, invalidCenters, i + 1, distance, i)
                ELSE CenterScan(buildings, midpoint, invalidCenters, i + 1, min, minIndex)

\* getCenterBuildingIndex as it would be if it did not skip the excluded names
getCenterBuildingIndex_IgnoresExclusions(buildings, midpoint, invalidCenters) ==
  CenterScan(buildings, midpoint, {}, 1, INF, -1)

getCenterBuildingIndex(buildings, midpoint, invalidCenters) ==
  CenterScan(buildings, midpoint, invalidCenters, 1, INF, -1)

\* the node IDs of all footways, in the order the two nested loops meet them
RECURSIVE FootwayNodeIds(_, _)
FootwayNodeIds(footways, i) ==
  IF i > Len(footways) THEN <<>> ELSE footways[i].Nodes \o FootwayNodeIds(footways, i + 1)

RECURSIVE ClosestScan(_, _, _, _, _, _)
ClosestScan(nodes, ids, building, k, min, minID) ==
  IF k > Len(ids)
    THEN minID
    ELSE LET distance == distBetween2Points(building.Coords.Lat, building.Coords.Lon,
                                            nodes[ids[k]].Lat, nodes[ids[k]].Lon)
         IN IF distance < min
              THEN ClosestScan(nodes, ids, building, k + 1, distance, ids[k])
              ELSE ClosestScan(nodes, ids, building, k + 1, min, minID)

\* getClosestNode as it would be if it scanned every node of the map
getClosestNode_ScansAllNodes(nodes, footways, building) ==
  nodes[ClosestScan(nodes, [i \in 1..Len(nodes) |-> i], building, 1, INF, 0)]

\* minID is set by the first footway node scanned; the maps used here all
\* have a footway node
getClosestNode(nodes, footways, building) ==
  nodes[ClosestScan(nodes, FootwayNodeIds(footways, 1), building, 1, INF, 0)]

(***************************************************************************)
(* main: the graph built from the nodes and the footways                   *)
(***************************************************************************)
RECURSIVE AddNodeVertices(_, _)
\* the loop over the Nodes map, in key order
AddNodeVertices(g, ids) ==
  IF ids = {} THEN g ELSE AddNodeVertices(addVertex(g, Min(ids)).g, ids \ {Min(ids)})

RECURSIVE AddFootwayEdges_OneWay(_, _, _, _)
\* AddFootwayEdges as it would be without the second addEdge call
AddFootwayEdges_OneWay(g, nodes, footway, j) ==
  IF j > Len(footway.Nodes) - 1
    THEN g
    ELSE LET fromID == footway.Nodes[j]
             toID == footway.Nodes[j + 1]
             weightAsDistance == distBetween2Points(nodes[fromID].Lat, nodes[fromID].Lon,
                                                    nodes[toID].Lat, nodes[toID].Lon)
             g1 == addEdge(g, fromID, toID, weightAsDistance).g
         IN AddFootwayEdges_OneWay(g1, nodes, footway, j + 1)

RECURSIVE AddFootwayEdges(_, _, _, _)
\* the loop over j of one footway
AddFootwayEdges(g, nodes, footway, j) ==
  IF j > Len(footway.Nodes) - 1
    THEN g
    ELSE LET fromID == footway.Nodes[j]
             toID == footway.Nodes[j + 1]
             weightAsDistance == distBetween2Points(nodes[fromID].Lat, nodes[fromID].Lon,
                                                    nodes[toID].Lat, nodes[toID].Lon)
             g1 == addEdge(g, fromID, toID, weightAsDistance).g
             g2 == addEdge(g1, toID, fromID, weightAsDistance).g
         IN AddFootwayEdges(g2, nodes, footway, j + 1)

RECURSIVE AddAllFootways(_, _, _, _)
AddAllFootways(g, nodes, footways, i) ==
  IF i > Len(footways)
    THEN g
    ELSE AddAllFootways(AddFootwayEdges(g, nodes, footways[i], 1), nodes, footways, i + 1)

BuildGraph(nodes, footways) ==
  AddAllFootways(AddNodeVertices(NewGraph, DOMAIN nodes), nodes, footways, 1)

(***************************************************************************)
(* Values of the variables a specification does not use                    *)
(***************************************************************************)
NoCall == [op |-> "none", from |-> 0, to |-> 0, weight |-> 0, ret |-> FALSE, out |-> 0,
           edgesBefore |-> 0]
NoDj == [pc |-> "idle"]
NoQuery == [pc |-> "idle"]
NoMain == [pc |-> "idle"]

(***************************************************************************)
(* SpecGraph: any sequence of addVertex, addEdge and getWeight calls on    *)
(* one graph object.  `call` records the last call: its arguments, its     *)
(* return value, for getWeight the reference argument afterwards, and the  *)
(* value NumEdges() had when the call was made.                            *)
(***************************************************************************)
InitGraph ==
  /\ G = NewGraph
  /\ call = NoCall
  /\ dj = NoDj
  /\ shortest = <<>>
  /\ Nodes = <<>>
  /\ Footways = <<>>
  /\ Buildings = <<>>
  /\ q = NoQuery
  /\ firstInf = <<>>
  /\ main = NoMain

CallAddVertex ==
  \E v \in VertexIds :
    LET r == addVertex(G, v)
    IN /\ G' = r.g
       /\ call' = [op |-> "addVertex", from |-> v, to |-> v, weight |-> 0,
                   ret |-> r.ret, out |-> 0, edgesBefore |-> NumEdges(G)]
       /\ UNCHANGED <<dj, shortest, Nodes, Footways, Buildings, q, firstInf, main>>

CallAddEdge ==
  \E from \in VertexIds, to \in VertexIds, weight \in Weights :
    LET r == addEdge(G, from, to, weight)
    IN /\ r.g.edgeCount <= MaxGEdges
       /\ G' = r.g
       /\ call' = [op |-> "addEdge", from |-> from, to |-> to, weight |-> weight,
                   ret |-> r.ret, out |-> weight, edgesBefore |-> NumEdges(G)]
       /\ UNCHANGED <<dj, shortest, Nodes, Footways, Buildings, q, firstInf, main>>

CallGetWeight ==
  \E from \in VertexIds, to \in VertexIds, weight \in CallerWeights :
    LET r == getWeight(G, from, to, weight)
    IN /\ call' = [op |-> "getWeight", from |-> from, to |-> to, weight |-> weight,
                   ret |-> r.ret, out |-> r.weight, edgesBefore |-> NumEdges(G)]
       /\ UNCHANGED <<G, dj, shortest, Nodes, Footways, Buildings, q, firstInf, main>>

NextGraph == CallAddVertex \/ CallAddEdge \/ CallGetWeight

SpecGraph == InitGraph /\ [][NextGraph]_vars

(***************************************************************************)
(* Reference distances, defined from the edges alone                       *)
(***************************************************************************)
VertexSet(g) == {getVertices(g)[i] : i \in 1..Len(getVertices(g))}

HasEdge(g, u, v) == getWeight(g, u, v, 0).ret

\* A distance table is a set of pairs <<vertex, distance>>, one per vertex.
Dist(table, v) == (CHOOSE p \in table : p[1] = v)[2]

\* prev gives, for every vertex, the least total weight of a directed walk from
\* the source with at most k edges (INF when there is none); the result gives
\* it for at most k + 1 edges
ExtendWalks(g, prev) ==
  {<<v, Min({Dist(prev, v)} \cup
            {p[2] + getWeight(g, p[1], v, 0).weight :
               p \in {x \in prev : x[2] < INF /\ HasEdge(g, x[1], v)}})>> : v \in VertexSet(g)}

RECURSIVE WalkDistances(_, _, _)
\* k more edges allowed
WalkDistances(g, prev, k) ==
  IF k = 0 THEN prev ELSE WalkDistances(g, ExtendWalks(g, prev), k - 1)

\* the least total weight of a directed path from s to each vertex: with
\* weights >= 0 a lightest walk needs no more edges than there are vertices
ShortestDistances(g, s) ==
  LET table == WalkDistances(g, {<<v, IF v = s THEN 0 ELSE INF>> : v \in VertexSet(g)},
                             Cardinality(VertexSet(g)))
  IN [v \in VertexSet(g) |-> Dist(table, v)]

Reachable(g, s, t) ==
  /\ s \in VertexSet(g)
  /\ t \in VertexSet(g)
  /\ ShortestDistances(g, s)[t] < INF

(***************************************************************************)
(* SpecDijkstra: one call of Dijkstra on a graph with the vertices         *)
(* 1..NumV and up to MaxDjEdges weighted directed edges (self-loops        *)
(* included).  NumV + 1 is a vertex the graph does not have.  The start    *)
(* vertex is 1 or NumV + 1: the graphs are all the graphs on 1..NumV, so   *)
(* every other start vertex is the start vertex 1 of a renamed graph.      *)
(***************************************************************************)
RECURSIVE AddVertices(_, _, _)
AddVertices(g, v, last) ==
  IF v > last THEN g ELSE AddVertices(addVertex(g, v).g, v + 1, last)

RECURSIVE AddEdges(_, _, _)
\* es is a sequence of <<from, to, weight>>
AddEdges(g, es, i) ==
  IF i > Len(es) THEN g ELSE AddEdges(addEdge(g, es[i][1], es[i][2], es[i][3]).g, es, i + 1)

\* position of the pair (from,to) in the row-major order of the pairs
PairIndex(e) == (e[1] - 1) * NumV + e[2]

\* the edge lists of the graphs: at most MaxDjEdges edges, each pair once
EdgeLists ==
  UNION {{es \in [1..k -> (1..NumV) \X (1..NumV) \X Weights] :
            \A i \in 1..k - 1 : PairIndex(es[i]) < PairIndex(es[i + 1])} : k \in 0..MaxDjEdges}

InitDijkstra ==
  /\ \E es \in EdgeLists : G = AddEdges(AddVertices(NewGraph, 1, NumV), es, 1)
  /\ \E startV \in {1, NumV + 1}, endV \in 1..NumV + 1 :
        dj = [pc |-> "call", startV |-> startV, endV |-> endV, path |-> <<>>]
  /\ shortest = ShortestDistances(G, dj.startV)
  /\ call = NoCall
  /\ Nodes = <<>>
  /\ Footways = <<>>
  /\ Buildings = <<>>
  /\ q = NoQuery
  /\ firstInf = <<>>
  /\ main = NoMain

DijkstraEnter ==
  /\ dj.pc = "call"
  /\ dj' = DijkstraSetup(G, dj.startV, dj.endV, dj.path)
  /\ UNCHANGED <<G, call, shortest, Nodes, Footways, Buildings, q, firstInf, main>>

DijkstraLoop ==
  /\ dj.pc = "loop"
  /\ \E top \in TopEntries(dj.unvisitedQ) : dj' = DijkstraIteration(G, dj, top)
  /\ UNCHANGED <<G, call, shortest, Nodes, Footways, Buildings, q, firstInf, main>>

DijkstraExit ==
  /\ dj.pc = "after"
  /\ dj' = DijkstraReturn(dj)
  /\ UNCHANGED <<G, call, shortest, Nodes, Footways, Buildings, q, firstInf, main>>

NextDijkstra == DijkstraEnter \/ DijkstraLoop \/ DijkstraExit

SpecDijkstra == InitDijkstra /\ [][NextDijkstra]_vars

\* the call runs on: a step of the function that can be taken is taken
SpecDijkstraRuns == SpecDijkstra /\ WF_vars(NextDijkstra)

(***************************************************************************)
(* SpecApp: the application loop on a map with the nodes 1..NumNodes on a  *)
(* line (node i at latitude 2i), 1..MaxFootways footways of one or two     *)
(* nodes, and NumBuildings buildings that stand at node latitudes.  Full   *)
(* names may repeat: they are drawn up to renaming.                        *)
(* q holds the locals of the current pass of the loop, the outcome of the  *)
(* pass once it is over, and two counters: centerRuns, the Dijkstra calls  *)
(* made toward a center building, and rounds, the centers tried.           *)
(* The pops of a Dijkstra call do not depend on endV before the loop is    *)
(* left, and a build yields equal keys in one order, so all the calls with *)
(* one startV meet the same INF entry first: firstInf[startV], any of the  *)
(* vertices startV cannot reach.                                           *)
(***************************************************************************)
BuildingInfo(fullname, coords) == [Fullname |-> fullname, Abbrev |-> "", Coords |-> coords]

FootwayInfo(ids) == [Nodes |-> ids]

NameOf(k) == <<"A", "B", "C", "D", "E">>[k]

\* name numbers in which a new number is one more than the largest so far
NameLists ==
  {ns \in [1..NumBuildings -> 1..NumBuildings] :
     /\ ns[1] = 1
     /\ \A i \in 2..NumBuildings : \E j \in 1..i - 1 : ns[i] <= ns[j] + 1}

\* the node sequences of a footway: one node, or two in ascending order
FootwayShapes ==
  {<<a>> : a \in 1..NumNodes} \cup
  {p \in (1..NumNodes) \X (1..NumNodes) : p[1] < p[2]}

\* the vertices whose distance from s stays INF; {0} when there is none
Unreached(g, s) ==
  LET far == {v \in VertexSet(g) : ShortestDistances(g, s)[v] = INF}
  IN IF far = {} THEN {0} ELSE far

RECURSIVE QueueOrders(_, _)
\* the functions that give every start vertex in vs one of its Unreached
QueueOrders(g, vs) ==
  IF vs = {}
    THEN {<<>>}
    ELSE LET s == Min(vs)
         IN {(s :> v) @@ f : v \in Unreached(g, s), f \in QueueOrders(g, vs \ {s})}

\* Dijkstra(G, startV, endV, path) with an empty path, under the build's order
DijkstraCall(startV, endV) ==
  {r \in Dijkstra(G, startV, endV, <<>>) : r.stoppedAt \in {0, firstInf[startV]}}

FreshQuery ==
  [pc |-> "prompt", outcome |-> "none", firstIndex |-> -1, secondIndex |-> -1,
   midpoint |-> Coordinates(0, 0, 0),
   centerBuilding |-> BuildingInfo("", Coordinates(0, 0, 0)),
   p1Coords |-> Coordinates(0, 0, 0), p2Coords |-> Coordinates(0, 0, 0),
   centerCoords |-> Coordinates(0, 0, 0),
   invalidCenters |-> {}, path1 |-> <<>>, path2 |-> <<>>, validPath |-> <<>>,
   totalDistance1 |-> 0, totalDistance2 |-> 0, validPathDistance |-> 0,
   centerRuns |-> 0, rounds |-> 0]

InitApp ==
  /\ Nodes = [i \in 1..NumNodes |-> Coordinates(i, 2 * i, 0)]
  /\ \E k \in 1..MaxFootways : \E fs \in [1..k -> FootwayShapes] :
        Footways = [i \in 1..k |-> FootwayInfo(fs[i])]
  /\ \E ns \in NameLists : \E at \in [1..NumBuildings -> 1..NumNodes] :
        Buildings = [i \in 1..NumBuildings |->
                       BuildingInfo(NameOf(ns[i]), Coordinates(0, 2 * at[i], 0))]
  /\ G = BuildGraph(Nodes, Footways)
  /\ firstInf \in QueueOrders(G, VertexSet(G))
  /\ main = NoMain
  /\ q = FreshQuery
  /\ call = NoCall
  /\ dj = NoDj
  /\ shortest = <<>>

\* one pass of the loop from the prompts to the test of the three distances;
\* firstIndex and secondIndex are what searchBuilding returned
QueryStart ==
  /\ q.pc = "prompt"
  /\ \E firstIndex \in {-1} \cup (1..Len(Buildings)), secondIndex \in {-1} \cup (1..Len(Buildings)) :
       IF firstIndex = -1 \/ secondIndex = -1
         THEN q' = [FreshQuery EXCEPT !.pc = "passed", !.outcome = "BuildingNotFound",
                                      !.firstIndex = firstIndex, !.secondIndex = secondIndex]
         ELSE
           LET p1Building == Buildings[firstIndex]
               p2Building == Buildings[secondIndex]
               midpoint == centerBetween2Points(p1Building.Coords.Lat, p1Building.Coords.Lon,
                                                p2Building.Coords.Lat, p2Building.Coords.Lon)
               centerIndex == getCenterBuildingIndex(Buildings, midpoint, {})
               started == [FreshQuery EXCEPT !.firstIndex = firstIndex,
                                             !.secondIndex = secondIndex,
                                             !.midpoint = midpoint]
           IN IF centerIndex = -1
                THEN q' = [started EXCEPT !.pc = "aborted", !.outcome = "Aborted"]
                ELSE
                  LET centerBuilding == Buildings[centerIndex]
                      p1Coords == getClosestNode(Nodes, Footways, p1Building)
                      p2Coords == getClosestNode(Nodes, Footways, p2Building)
                      centerCoords == getClosestNode(Nodes, Footways, centerBuilding)
                  IN \E r1 \in DijkstraCall(p1Coords.ID, centerCoords.ID),
                        r2 \in DijkstraCall(p2Coords.ID, centerCoords.ID),
                        rv \in DijkstraCall(p1Coords.ID, p2Coords.ID) :
                       LET ran == [started EXCEPT !.centerBuilding = centerBuilding,
                                                  !.p1Coords = p1Coords,
                                                  !.p2Coords = p2Coords,
                                                  !.centerCoords = centerCoords,
                                                  !.path1 = r1.path, !.path2 = r2.path,
                                                  !.validPath = rv.path,
                                                  !.totalDistance1 = r1.ret,
                                                  !.totalDistance2 = r2.ret,
                                                  !.validPathDistance = rv.ret,
                                                  !.centerRuns = 2, !.rounds = 1]
                       IN q' = IF rv.ret = -1
                                 THEN [ran EXCEPT !.pc = "passed",
                                                  !.outcome = "DestinationUnreachable"]
                                 ELSE IF r1.ret = -1 \/ r2.ret = -1
                                   THEN [ran EXCEPT !.pc = "retry"]
                                   ELSE [ran EXCEPT !.pc = "print"]
  /\ UNCHANGED <<G, call, dj, shortest, Nodes, Footways, Buildings, firstInf, main>>

\* QueryRetry as it would be if the failed center were erased from Buildings
\* instead of being recorded in invalidCenters
QueryRetry_ErasesCenter ==
  /\ q.pc = "retry"
  /\ LET Kept(b) == b.Fullname # q.centerBuilding.Fullname
         remaining == SelectSeq(Buildings, Kept)
         centerIndex == getCenterBuildingIndex(remaining, q.midpoint, q.invalidCenters)
     IN /\ Buildings' = remaining
        /\ IF centerIndex = -1
             THEN q' = [q EXCEPT !.pc = "aborted", !.outcome = "Aborted"]
             ELSE
               LET centerBuilding == remaining[centerIndex]
                   centerCoords == getClosestNode(Nodes, Footways, centerBuilding)
               IN \E r1 \in DijkstraCall(q.p1Coords.ID, centerCoords.ID),
                     r2 \in DijkstraCall(q.p2Coords.ID, centerCoords.ID) :
                    q' = [q EXCEPT !.centerBuilding = centerBuilding,
                                   !.centerCoords = centerCoords,
                                   !.path1 = r1.path, !.path2 = r2.path,
                                   !.totalDistance1 = r1.ret, !.totalDistance2 = r2.ret,
                                   !.centerRuns = q.centerRuns + 2,
                                   !.rounds = q.rounds + 1,
                                   !.pc = IF r1.ret = -1 \/ r2.ret = -1 THEN "retry" ELSE "print"]
  /\ UNCHANGED <<G, call, dj, shortest, Nodes, Footways, firstInf, main>>

\* one iteration of the loop that finds the next closest building;
\* Buildings.at(-1) throws out_of_range, which nothing catches
QueryRetry ==
  /\ q.pc = "retry"
  /\ LET invalidCenters == q.invalidCenters \cup {q.centerBuilding.Fullname}
         centerIndex == getCenterBuildingIndex(Buildings, q.midpoint, invalidCenters)
     IN IF centerIndex = -1
          THEN q' = [q EXCEPT !.invalidCenters = invalidCenters,
                              !.pc = "aborted", !.outcome = "Aborted"]
          ELSE
            LET centerBuilding == Buildings[centerIndex]
                centerCoords == getClosestNode(Nodes, Footways, centerBuilding)
            IN \E r1 \in DijkstraCall(q.p1Coords.ID, centerCoords.ID),
                  r2 \in DijkstraCall(q.p2Coords.ID, centerCoords.ID) :
                 q' = [q EXCEPT !.invalidCenters = invalidCenters,
                                !.centerBuilding = centerBuilding,
                                !.centerCoords = centerCoords,
                                !.path1 = r1.path, !.path2 = r2.path,
                                !.totalDistance1 = r1.ret, !.totalDistance2 = r2.ret,
                                !.centerRuns = q.centerRuns + 2,
                                !.rounds = q.rounds + 1,
                                !.pc = IF r1.ret = -1 \/ r2.ret = -1 THEN "retry" ELSE "print"]
  /\ UNCHANGED <<G, call, dj, shortest, Nodes, Footways, Buildings, firstInf, main>>

\* the two distances and paths are printed; path1.at(0) and path2.at(i) throw
\* on an empty path
QueryPrint ==
  /\ q.pc = "print"
  /\ q' = IF q.path1 = <<>> \/ q.path2 = <<>>
            THEN [q EXCEPT !.pc = "aborted", !.outcome = "Aborted"]
            ELSE [q EXCEPT !.pc = "passed", !.outcome = "Success"]
  /\ UNCHANGED <<G, call, dj, shortest, Nodes, Footways, Buildings, firstInf, main>>

\* the next pass of the loop declares its locals anew
QueryAgain ==
  /\ q.pc = "passed"
  /\ q' = FreshQuery
  /\ UNCHANGED <<G, call, dj, shortest, Nodes, Footways, Buildings, firstInf, main>>

\* "#" at the first prompt leaves the loop
QueryQuit ==
  /\ q.pc = "prompt"
  /\ q' = [FreshQuery EXCEPT !.pc = "exited"]
  /\ UNCHANGED <<G, call, dj, shortest, Nodes, Footways, Buildings, firstInf, main>>

NextApp == QueryStart \/ QueryRetry \/ QueryPrint \/ QueryAgain \/ QueryQuit

SpecApp == InitApp /\ [][NextApp]_vars

(***************************************************************************)
(* SpecBuild: main builds the graph from a map with the nodes 1..NumNodes  *)
(* (node i at latitude 2i) and 1..MaxFootways footways, each a sequence of *)
(* up to three different nodes.  main.i is the index of the footway the    *)
(* outer loop is at.  The bound of the inner loop is i.Nodes.size() - 1   *)
(* in size_t, so for a footway without nodes the loop is entered and       *)
(* i.Nodes.at(0) throws out_of_range.                                      *)
(***************************************************************************)
FootwayLens == 0..3

\* the sequences of n different nodes
NodeSeqs(n) ==
  {ids \in [1..n -> 1..NumNodes] : \A i, j \in 1..n : i # j => ids[i] # ids[j]}

InitBuild ==
  /\ Nodes = [i \in 1..NumNodes |-> Coordinates(i, 2 * i, 0)]
  /\ \E k \in 1..MaxFootways : \E fs \in [1..k -> UNION {NodeSeqs(n) : n \in FootwayLens}] :
        Footways = [i \in 1..k |-> FootwayInfo(fs[i])]
  /\ Buildings = <<>>
  /\ G = NewGraph
  /\ main = [pc |-> "vertices", i |-> 1]
  /\ call = NoCall
  /\ dj = NoDj
  /\ shortest = <<>>
  /\ q = NoQuery
  /\ firstInf = <<>>

\* the loop that adds every node as a vertex
MainAddVertices ==
  /\ main.pc = "vertices"
  /\ G' = AddNodeVertices(G, DOMAIN Nodes)
  /\ main' = [main EXCEPT !.pc = "edges"]
  /\ UNCHANGED <<call, dj, shortest, Nodes, Footways, Buildings, q, firstInf>>

\* one iteration of the loop over Footways
MainAddFootway ==
  /\ main.pc = "edges"
  /\ main.i <= Len(Footways)
  /\ IF Footways[main.i].Nodes = <<>>
       THEN /\ main' = [main EXCEPT !.pc = "aborted"]
            /\ G' = G
       ELSE /\ main' = [main EXCEPT !.i = main.i + 1]
            /\ G' = AddFootwayEdges(G, Nodes, Footways[main.i], 1)
  /\ UNCHANGED <<call, dj, shortest, Nodes, Footways, Buildings, q, firstInf>>

\* the loop over Footways is over; the counts are printed
MainBuilt ==
  /\ main.pc = "edges"
  /\ main.i > Len(Footways)
  /\ main' = [main EXCEPT !.pc = "built"]
  /\ UNCHANGED <<G, call, dj, shortest, Nodes, Footways, Buildings, q, firstInf>>

NextBuild == MainAddVertices \/ MainAddFootway \/ MainBuilt

SpecBuild == InitBuild /\ [][NextBuild]_vars

(***************************************************************************)
(* SpecCenter: getCenterBuildingIndex as the application calls it, on 0 to *)
(* NumBuildings buildings that stand at node latitudes (full names may     *)
(* repeat) and a midpoint on the line of the nodes.  q holds the locals    *)
(* midpoint and invalidCenters and the index the last call returned; the   *)
(* exclusion set starts empty and grows by the name of the building        *)
(* returned, as in the retry loop.                                         *)
(***************************************************************************)
\* name numbers for k buildings, a new number being one more than the largest
NameListsOf(k) ==
  {ns \in [1..k -> 1..k] :
     \A i \in 1..k : IF i = 1 THEN ns[i] = 1 ELSE \E j \in 1..i - 1 : ns[i] <= ns[j] + 1}

InitCenter ==
  /\ \E k \in 0..NumBuildings : \E ns \in NameListsOf(k) : \E at \in [1..k -> 1..NumNodes] :
        Buildings = [i \in 1..k |-> BuildingInfo(NameOf(ns[i]), Coordinates(0, 2 * at[i], 0))]
  /\ \E lat \in 2..2 * NumNodes :
        q = [pc |-> "select", midpoint |-> Coordinates(0, lat, 0), invalidCenters |-> {},
             centerIndex |-> -1]
  /\ Nodes = <<>>
  /\ Footways = <<>>
  /\ G = NewGraph
  /\ call = NoCall
  /\ dj = NoDj
  /\ shortest = <<>>
  /\ firstInf = <<>>
  /\ main = NoMain

\* the call of getCenterBuildingIndex
CenterSelect ==
  /\ q.pc = "select"
  /\ q' = [q EXCEPT !.pc = "selected",
                    !.centerIndex = getCenterBuildingIndex(Buildings, q.midpoint, q.invalidCenters)]
  /\ UNCHANGED <<G, call, dj, shortest, Nodes, Footways, Buildings, firstInf, main>>

\* the building returned is recorded in invalidCenters before the next call
CenterExclude ==
  /\ q.pc = "selected"
  /\ q.centerIndex # -1
  /\ q' = [q EXCEPT !.pc = "select",
                    !.invalidCenters = @ \cup {Buildings[q.centerIndex].Fullname}]
  /\ UNCHANGED <<G, call, dj, shortest, Nodes, Footways, Buildings, firstInf, main>>

NextCenter == CenterSelect \/ CenterExclude

SpecCenter == InitCenter /\ [][NextCenter]_vars

(***************************************************************************)
(* SpecClosest: getClosestNode on a map with the nodes 1..NumNodes (node i *)
(* at latitude 2i), 1..MaxFootways footways of no, one or two nodes, and a *)
(* building at any latitude along the line.  q holds the building and the  *)
(* Coordinates returned.  When no footway has a node minID is read without *)
(* having been set: it may hold any value, and Nodes.at(minID) throws      *)
(* out_of_range unless that value is the ID of a node.                     *)
(***************************************************************************)
\* the values an unset minID may hold: no node ID, or any of them
UnsetIds == 0..NumNodes

InitClosest ==
  /\ Nodes = [i \in 1..NumNodes |-> Coordinates(i, 2 * i, 0)]
  /\ \E k \in 1..MaxFootways : \E fs \in [1..k -> FootwayShapes \cup {<<>>}] :
        Footways = [i \in 1..k |-> FootwayInfo(fs[i])]
  /\ \E lat \in 1..2 * NumNodes + 1 :
        q = [pc |-> "resolve", building |-> BuildingInfo("A", Coordinates(0, lat, 0)),
             closest |-> Coordinates(0, 0, 0)]
  /\ Buildings = <<>>
  /\ G = NewGraph
  /\ call = NoCall
  /\ dj = NoDj
  /\ shortest = <<>>
  /\ firstInf = <<>>
  /\ main = NoMain

\* the call of getClosestNode
ClosestResolve ==
  /\ q.pc = "resolve"
  /\ IF FootwayNodeIds(Footways, 1) # <<>>
       THEN q' = [q EXCEPT !.pc = "resolved",
                           !.closest = getClosestNode(Nodes, Footways, q.building)]
       ELSE \E minID \in UnsetIds :
              q' = IF minID \in DOMAIN Nodes
                     THEN [q EXCEPT !.pc = "resolved", !.closest = Nodes[minID]]
                     ELSE [q EXCEPT !.pc = "aborted"]
  /\ UNCHANGED <<G, call, dj, shortest, Nodes, Footways, Buildings, firstInf, main>>

\* the caller goes on to the next building
ClosestNext ==
  /\ q.pc = "resolved"
  /\ \E lat \in 1..2 * NumNodes + 1 :
        q' = [pc |-> "resolve", building |-> BuildingInfo("A", Coordinates(0, lat, 0)),
              closest |-> Coordinates(0, 0, 0)]
  /\ UNCHANGED <<G, call, dj, shortest, Nodes, Footways, Buildings, firstInf, main>>

NextClosest == ClosestResolve \/ ClosestNext

SpecClosest == InitClosest /\ [][NextClosest]_vars

(***************************************************************************)
(* Properties of Dijkstra                                                  *)
(***************************************************************************)
\* C1: when the target is not reachable from a source present in the graph,
\* Dijkstra returns the sentinel -1, whichever equal-key entry the queue
\* yields first.
C1_UnreachableReturnsSentinel ==
  (dj.pc = "done" /\ dj.startV \in VertexSet(G)
     /\ (dj.endV \in VertexSet(G) => shortest[dj.endV] = INF))
    => dj.ret = -1

\* C2: with weights >= 0 and the target reachable, the returned distance is
\* the least total weight of a directed path from source to target, and every
\* finalized vertex carries its least distance from the source.
C2_ReturnsShortestDistance ==
  dj.pc \in {"loop", "after", "done"} =>
    /\ \A v \in dj.visitedVertices : dj.distances[v] = shortest[v]
    /\ (dj.pc = "done" /\ dj.endV \in VertexSet(G) /\ shortest[dj.endV] < INF)
         => dj.ret = shortest[dj.endV]

\* a call has returned a distance below the weight of the direct edge from
\* source to target: the target's first tentative distance was improved
C2_Witness ==
  /\ dj.pc = "done"
  /\ dj.startV # dj.endV
  /\ HasEdge(G, dj.startV, dj.endV)
  /\ dj.ret < getWeight(G, dj.startV, dj.endV, 0).weight
  /\ Len(dj.path) = 3

\* C11: for a vertex u of the graph, Dijkstra(G, u, u, path) with an empty
\* path returns 0 and leaves path = [u], with or without a self-loop or other
\* edges at u.
C11_SameVertexZero ==
  (dj.startV = dj.endV /\ dj.startV \in VertexSet(G)) =>
    /\ dj.pc \notin {"thrown", "spins"}
    /\ dj.pc = "done" => (dj.ret = 0 /\ dj.path = <<dj.startV>>)

\* a call from u to u has returned on a graph where u has a self-loop and an
\* edge of weight 0 to another vertex
C11_Witness ==
  /\ dj.pc = "done" /\ dj.startV = dj.endV
  /\ HasEdge(G, dj.startV, dj.startV)
  /\ \E v \in VertexSet(G) : v # dj.startV /\ getWeight(G, dj.startV, v, -1).weight = 0

RECURSIVE TravelWeight(_, _, _)
\* the sum of the weights of the edges path[i+1] -> path[i] from index i on:
\* the returned vector lists the vertices from endV back to startV
TravelWeight(g, path, i) ==
  IF i >= Len(path)
    THEN 0
    ELSE getWeight(g, path[i + 1], path[i], 0).weight + TravelWeight(g, path, i + 1)

\* C12: when Dijkstra returns a path with a distance d, every two consecutive
\* vertices of the path are joined by an edge of G and d is the sum of the
\* weights of these edges.
C12_DistanceIsPathWeight ==
  (dj.pc = "done" /\ dj.ret # -1) =>
    /\ \A i \in 1..Len(dj.path) - 1 : HasEdge(G, dj.path[i + 1], dj.path[i])
    /\ dj.ret = TravelWeight(G, dj.path, 1)

\* a call has returned for a target that the source can reach
ReturnedForReachable ==
  /\ dj.pc = "done"
  /\ dj.startV \in VertexSet(G) /\ dj.endV \in VertexSet(G)
  /\ shortest[dj.endV] < INF

\* C13: on a successful result the path is the vertex sequence from source
\* to target: its first element is the source, its last the target, and each
\* vertex is followed by the next one in travel order.
C13_PathSourceToTarget ==
  ReturnedForReachable =>
    /\ Len(dj.path) >= 1
    /\ dj.path[1] = dj.startV
    /\ dj.path[Len(dj.path)] = dj.endV
    /\ \A i \in 1..Len(dj.path) - 1 : HasEdge(G, dj.path[i], dj.path[i + 1])

\* C13 as amended: when the target is reachable from the source the path is
\* the vertex sequence from the target back to the source: its first element
\* is the target, its last the source, and each vertex is followed by the one
\* travelled just before it.
C13_PathTargetBackToSource ==
  ReturnedForReachable =>
    /\ dj.ret # -1
    /\ Len(dj.path) >= 1
    /\ dj.path[1] = dj.endV
    /\ dj.path[Len(dj.path)] = dj.startV
    /\ \A i \in 1..Len(dj.path) - 1 : HasEdge(G, dj.path[i + 1], dj.path[i])
    /\ \A i, j \in 1..Len(dj.path) : i # j => dj.path[i] # dj.path[j]

\* the chain 1 -> 2 -> 3 with unit weights and no edge 1 -> 3: the call from 1
\* to 3 has returned 2 and the path [3, 2, 1]
C13_Witness ==
  /\ dj.pc = "done" /\ dj.startV = 1 /\ dj.endV = 3
  /\ getWeight(G, 1, 2, 0) = [ret |-> TRUE, weight |-> 1]
  /\ getWeight(G, 2, 3, 0) = [ret |-> TRUE, weight |-> 1]
  /\ ~HasEdge(G, 1, 3)
  /\ dj.ret = 2 /\ dj.path = <<3, 2, 1>>

\* C14: a call that names a vertex the graph does not have, as source or as
\* target, returns a failure result to its caller; it is not ended by an
\* exception out of distances.at or predecessors.at.
C14_MissingVertexFails ==
  (dj.pc # "call" /\ (dj.startV \notin VertexSet(G) \/ dj.endV \notin VertexSet(G))) =>
    /\ dj.pc # "thrown"
    /\ dj.pc = "done" => dj.ret = -1

\* C15: the result of a call does not depend on the order in which the queue
\* yields equal keys: every order gives the distance, and so the verdict,
\* that this run has returned.
C15_TieOrderIrrelevant ==
  (dj.pc = "done" /\ dj.startV \in VertexSet(G)) =>
    \A r \in Dijkstra(G, dj.startV, dj.endV, <<>>) : r.ret = dj.ret

\* C22: in one run a vertex is finalized at most once: an iteration that adds
\* to the visited set adds the popped vertex, which was not in it, and only
\* such an iteration changes a distance or a predecessor or pushes an entry.
\* An iteration that pops an entry of a visited vertex takes that entry from
\* the queue and changes nothing else, and the scan goes on while the queue
\* has entries.
C22_StaleEntriesDiscarded ==
  [][(dj.pc = "loop" /\ dj'.pc \in {"loop", "after"}) =>
       /\ dj'.currentV \in dj.visitedVertices =>
             /\ dj'.distances = dj.distances
             /\ dj'.predecessors = dj.predecessors
             /\ dj'.visitedVertices = dj.visitedVertices
             /\ \E e \in BagToSet(dj.unvisitedQ) :
                   e[1] = dj'.currentV /\ dj'.unvisitedQ = dj.unvisitedQ (-) SetToBag({e})
             /\ dj'.pc = "after" => dj'.unvisitedQ = EmptyBag
       /\ dj'.visitedVertices # dj.visitedVertices =>
             /\ dj'.currentV \notin dj.visitedVertices
             /\ dj'.visitedVertices = dj.visitedVertices \cup {dj'.currentV}
       /\ dj'.visitedVertices = dj.visitedVertices =>
             /\ dj'.distances = dj.distances
             /\ dj'.predecessors = dj.predecessors
             /\ BagCardinality(dj'.unvisitedQ) = BagCardinality(dj.unvisitedQ) - 1]_vars

\* the scan goes on after the INF entry of a visited vertex other than startV
\* was popped: the entry pushed by the set-up loop had become stale
C22_Witness ==
  /\ dj.pc = "loop"
  /\ dj.currentV \in dj.visitedVertices
  /\ dj.currentV # dj.startV
  /\ <<dj.currentV, INF>> \notin BagToSet(dj.unvisitedQ)

\* C23: during a run no tentative distance increases; the distance and the
\* predecessor of a finalized vertex do not change again; the source keeps
\* distance 0 and predecessor -1; and the walk along the predecessors from
\* the target does not spin, meets no vertex twice and ends at the source.
C23_DistancesSettle ==
  [][dj'.pc \in {"loop", "after", "done", "spins"} =>
       /\ dj'.distances[dj'.startV] = 0
       /\ dj'.predecessors[dj'.startV] = -1
       /\ dj.pc \in {"loop", "after"} =>
             /\ \A v \in DOMAIN dj.distances : dj'.distances[v] <= dj.distances[v]
             /\ \A v \in dj.visitedVertices :
                   /\ dj'.distances[v] = dj.distances[v]
                   /\ dj'.predecessors[v] = dj.predecessors[v]
       /\ dj'.pc # "spins"
       /\ (dj'.pc = "done" /\ dj'.ret # -1) =>
             /\ \A i, j \in 1..Len(dj'.path) : i # j => dj'.path[i] # dj'.path[j]
             /\ Len(dj'.path) >= 1
             /\ dj'.path[Len(dj'.path)] = dj'.startV]_vars

\* C24: when Dijkstra returns -1 the caller's path vector, passed in empty,
\* is still empty; when it returns any other value the vector is not empty
\* and its first element is the target.
C24_PathOnlyWithDistance ==
  dj.pc = "done" =>
    /\ dj.ret = -1 => dj.path = <<>>
    /\ dj.ret # -1 => (Len(dj.path) >= 1 /\ dj.path[1] = dj.endV)

\* a call has returned -1 for a target of the graph after it had finalized
\* the source, which has an outgoing edge
C24_Witness ==
  /\ dj.pc = "done" /\ dj.ret = -1
  /\ dj.endV \in VertexSet(G)
  /\ dj.startV \in dj.visitedVertices
  /\ neighbors(G, dj.startV) # {}

\* C25: for a source that is a vertex of the graph the scan loop of Dijkstra
\* is left after finitely many iterations; the number of entries pushed onto
\* the queue never exceeds the number of vertices plus one plus the number
\* of edges; an iteration pushes only when it finalizes a vertex for the
\* first time; and every iteration removes exactly one entry.
C25_ScanTerminates ==
  /\ [](dj.pc \in {"loop", "after", "done", "spins"} =>
          dj.pushed <= Cardinality(VertexSet(G)) + 1 + NumEdges(G))
  /\ [][(dj.pc = "loop" /\ dj'.pc \in {"loop", "after"}) =>
          /\ BagCardinality(dj'.unvisitedQ) = BagCardinality(dj.unvisitedQ) - 1 + (dj'.pushed - dj.pushed)
          /\ dj'.pushed >= dj.pushed
          /\ dj'.pushed > dj.pushed =>
                /\ dj'.currentV \notin dj.visitedVertices
                /\ dj'.currentV \in dj'.visitedVertices]_vars
  /\ (dj.startV \in VertexSet(G) => <>(dj.pc \in {"after", "done", "spins"}))

\* the scan loop has ended after every edge of a graph with at least two
\* edges caused a push
C25_Witness ==
  /\ dj.pc = "after"
  /\ NumEdges(G) >= 2
  /\ dj.pushed = Cardinality(VertexSet(G)) + 1 + NumEdges(G)

(***************************************************************************)
(* Properties of the meeting-point query                                   *)
(***************************************************************************)
\* the pass has resolved its three nodes and run Dijkstra
QueryRan == q.rounds >= 1

\* the pass is over
QueryOver == q.pc \in {"passed", "aborted"}

BuildingNode(b) == getClosestNode(Nodes, Footways, b).ID

\* the node of building b can be reached from both endpoint nodes
ReachableFromBoth(b) ==
  /\ Reachable(G, q.p1Coords.ID, BuildingNode(b))
  /\ Reachable(G, q.p2Coords.ID, BuildingNode(b))

\* C3: a query that ends in Success has two legs that succeeded: the center's
\* node is reachable from both endpoint nodes, each reported distance is the
\* finite weight of a path and each reported path joins the center's node to
\* that party's endpoint node.
C3_SuccessHasTwoRealLegs ==
  q.outcome = "Success" =>
    /\ Reachable(G, q.p1Coords.ID, q.centerCoords.ID)
    /\ Reachable(G, q.p2Coords.ID, q.centerCoords.ID)
    /\ q.totalDistance1 = ShortestDistances(G, q.p1Coords.ID)[q.centerCoords.ID]
    /\ q.totalDistance2 = ShortestDistances(G, q.p2Coords.ID)[q.centerCoords.ID]
    /\ q.totalDistance1 < INF /\ q.totalDistance2 < INF
    /\ q.path1[1] = q.centerCoords.ID /\ q.path1[Len(q.path1)] = q.p1Coords.ID
    /\ q.path2[1] = q.centerCoords.ID /\ q.path2[Len(q.path2)] = q.p2Coords.ID

\* C4: once every building's full name is excluded the query ends in the
\* failure NoValidMeetingPoint; Buildings is never indexed with the -1 that
\* getCenterBuildingIndex returns then, and the program does not abort.
C4_ExhaustedCentersFailCleanly ==
  /\ q.pc # "aborted"
  /\ (QueryRan /\ \A i \in 1..Len(Buildings) : Buildings[i].Fullname \in q.invalidCenters)
       => q.outcome = "NoValidMeetingPoint"

\* C5: when the two endpoint nodes are disconnected the query ends in
\* DestinationUnreachable, and no Dijkstra call toward a center building was
\* made and no name was added to the exclusion set.
C5_DisconnectedEndpointsFailFirst ==
  (QueryRan /\ ~Reachable(G, q.p1Coords.ID, q.p2Coords.ID)) =>
    /\ QueryOver => q.outcome = "DestinationUnreachable"
    /\ q.centerRuns = 0
    /\ q.invalidCenters = {}

\* C6: when the endpoints can reach each other, the building closest to the
\* midpoint cannot be reached from both and the next closest can, the query
\* ends in Success with the next closest building as the center and the
\* first one's full name in the exclusion set.
C6_SecondCandidateChosen ==
  (QueryRan /\ QueryOver) =>
    LET first == getCenterBuildingIndex(Buildings, q.midpoint, {})
        second == getCenterBuildingIndex(Buildings, q.midpoint, {Buildings[first].Fullname})
    IN (/\ Reachable(G, q.p1Coords.ID, q.p2Coords.ID)
        /\ Reachable(G, q.p2Coords.ID, q.p1Coords.ID)
        /\ ~ReachableFromBoth(Buildings[first])
        /\ second # -1
        /\ ReachableFromBoth(Buildings[second]))
       => /\ q.outcome = "Success"
          /\ q.centerBuilding = Buildings[second]
          /\ Buildings[first].Fullname \in q.invalidCenters

\* C7: every query terminates in Success or in a failure: each failed center
\* adds a new name to the exclusion set, at most as many centers are tried
\* as there are buildings, and the retry loop is not left by an abort.
C7_RetryLoopEndsInSuccessOrFailure ==
  QueryRan =>
    /\ q.pc # "aborted"
    /\ q.rounds <= Len(Buildings)
    /\ q.pc # "aborted" => Cardinality(q.invalidCenters) = q.rounds - 1

\* C19: no step of a query changes the graph or the node, footway and
\* building collections: after the query, however it ends, they are what
\* they were before it.
C19_QueryReadsOnly ==
  [][/\ G' = G
     /\ Nodes' = Nodes
     /\ Footways' = Footways
     /\ Buildings' = Buildings]_vars

\* a query has ended in Success after the retry loop tried a second center
C19_Witness ==
  /\ q.outcome = "Success"
  /\ q.rounds >= 2
  /\ q.invalidCenters # {}

\* the distance from the midpoint of the query to building i
MidpointDistance(i) ==
  distBetween2Points(q.midpoint.Lat, q.midpoint.Lon, Buildings[i].Coords.Lat, Buildings[i].Coords.Lon)

\* C20: getCenterBuildingIndex returns the index of a building whose full name
\* is not excluded and that is as close to the midpoint as any building whose
\* full name is not excluded; it returns -1 exactly when every building's
\* full name is excluded or there is no building.
C20_ClosestAllowedBuilding ==
  q.pc = "selected" =>
    LET allowed == {i \in 1..Len(Buildings) : Buildings[i].Fullname \notin q.invalidCenters}
    IN /\ q.centerIndex = -1 <=> allowed = {}
       /\ q.centerIndex # -1 =>
             /\ q.centerIndex \in allowed
             /\ \A j \in allowed : MidpointDistance(q.centerIndex) <= MidpointDistance(j)

\* a call has returned the farthest of three buildings because the names of
\* the two closer ones are excluded
C20_Witness ==
  /\ q.pc = "selected" /\ q.centerIndex # -1
  /\ Len(Buildings) = 3
  /\ Cardinality(q.invalidCenters) = 2
  /\ \A j \in 1..Len(Buildings) :
        j # q.centerIndex => MidpointDistance(j) < MidpointDistance(q.centerIndex)

\* the node IDs that some footway refers to
FootwayNodeSet ==
  {FootwayNodeIds(Footways, 1)[k] : k \in 1..Len(FootwayNodeIds(Footways, 1))}

\* the distance from the building of the call to node n
BuildingDistance(n) ==
  distBetween2Points(q.building.Coords.Lat, q.building.Coords.Lon, Nodes[n].Lat, Nodes[n].Lon)

\* C21: when some footway has a node, getClosestNode returns the Coordinates
\* of a node that a footway refers to and that is as close to the building as
\* any node a footway refers to; a node of no footway is never returned.
C21_ClosestFootwayNode ==
  (q.pc = "resolved" /\ FootwayNodeSet # {}) =>
    /\ q.closest.ID \in FootwayNodeSet
    /\ q.closest = Nodes[q.closest.ID]
    /\ \A n \in FootwayNodeSet : BuildingDistance(q.closest.ID) <= BuildingDistance(n)

\* a call has returned a footway node although a node of no footway is closer
\* to the building
C21_Witness ==
  /\ q.pc = "resolved" /\ FootwayNodeSet # {}
  /\ \E n \in DOMAIN Nodes \ FootwayNodeSet : BuildingDistance(n) < BuildingDistance(q.closest.ID)
  /\ Cardinality(FootwayNodeSet) >= 2

(***************************************************************************)
(* Properties of the graph class                                           *)
(***************************************************************************)
\* the directed (from,to) pairs stored in the adjacency vectors
StoredPairs(g) ==
  UNION {{<<v, g.edgeMap[v][i].toVert>> : i \in 1..Len(g.edgeMap[v])} : v \in DOMAIN g.edgeMap}

\* C8: after any sequence of addVertex and addEdge calls no vertex is listed
\* twice by getVertices, NumVertices is the number of distinct vertices, an
\* adjacency list holds at most one entry per neighbour, and NumEdges is the
\* number of distinct directed (from,to) pairs stored.
C8_GraphInvariants ==
  /\ \A i, j \in 1..Len(getVertices(G)) : i # j => getVertices(G)[i] # getVertices(G)[j]
  /\ NumVertices(G) = Cardinality({getVertices(G)[i] : i \in 1..Len(getVertices(G))})
  /\ {getVertices(G)[i] : i \in 1..Len(getVertices(G))} = DOMAIN G.edgeMap
  /\ \A v \in DOMAIN G.edgeMap : \A to \in VertexIds :
        Cardinality(EdgeIndices(G.edgeMap[v], to)) <= 1
  /\ NumEdges(G) = Cardinality(StoredPairs(G))

\* an addEdge call has just overwritten the weight of one of two stored edges,
\* after every vertex had been added
C8_Witness ==
  /\ call.op = "addEdge" /\ call.ret
  /\ call.edgesBefore = NumEdges(G)
  /\ NumEdges(G) = MaxGEdges
  /\ NumVertices(G) = MaxVertexId

\* C9: addEdge with from or to absent returns false and leaves the vertex
\* count, the edge count, the vertex list and every adjacency list unchanged.
C9_AddEdgeMissingVertex ==
  [][(call'.op = "addEdge" /\ (~HasVertex(G, call'.from) \/ ~HasVertex(G, call'.to)))
       => (call'.ret = FALSE /\ G' = G)]_vars

\* addEdge has just failed for an absent `to` on a graph that holds an edge
C9_Witness ==
  /\ call.op = "addEdge" /\ ~call.ret
  /\ HasVertex(G, call.from) /\ ~HasVertex(G, call.to)
  /\ NumEdges(G) > 0

\* C10: with a and b present, addEdge(a,b,w) makes getWeight(a,b) yield w; when
\* the edge was already there NumEdges is unchanged; the weight of every other
\* edge, the reverse edge (b,a) included, is what it was.
C10_AddEdgeSetsWeight ==
  [][(call'.op = "addEdge" /\ HasVertex(G, call'.from) /\ HasVertex(G, call'.to))
       => /\ call'.ret
          /\ getWeight(G', call'.from, call'.to, -1) = [ret |-> TRUE, weight |-> call'.weight]
          /\ (getWeight(G, call'.from, call'.to, -1).ret => NumEdges(G') = NumEdges(G))
          /\ \A x \in VertexIds, y \in VertexIds :
                <<x, y>> # <<call'.from, call'.to>>
                  => getWeight(G', x, y, -1) = getWeight(G, x, y, -1)]_vars

\* addEdge(a,b,w2) has just overwritten (a,b) while the reverse edge (b,a)
\* holds another weight
C10_Witness ==
  /\ call.op = "addEdge" /\ call.ret
  /\ call.edgesBefore = NumEdges(G)
  /\ call.from # call.to
  /\ getWeight(G, call.from, call.to, 0) = [ret |-> TRUE, weight |-> call.weight]
  /\ getWeight(G, call.to, call.from, call.weight).ret
  /\ getWeight(G, call.to, call.from, call.weight).weight # call.weight

\* C16: addVertex(v) returns true exactly when v was absent; then v is added
\* with an empty adjacency list, NumVertices grows by one and nothing else
\* changes; when v was present it returns false and the graph is as before.
C16_AddVertexIdempotent ==
  [][call'.op = "addVertex"
       => /\ call'.ret <=> ~HasVertex(G, call'.from)
          /\ call'.ret =>
                /\ HasVertex(G', call'.from) /\ G'.edgeMap[call'.from] = <<>>
                /\ NumVertices(G') = NumVertices(G) + 1
                /\ NumEdges(G') = NumEdges(G)
                /\ getVertices(G') = Append(getVertices(G), call'.from)
                /\ \A u \in DOMAIN G.edgeMap : G'.edgeMap[u] = G.edgeMap[u]
          /\ ~call'.ret => G' = G]_vars

\* addVertex has just returned false for a vertex that has an outgoing edge
C16_Witness ==
  /\ call.op = "addVertex" /\ ~call.ret
  /\ HasVertex(G, call.from) /\ Len(G.edgeMap[call.from]) > 0

\* C17: getWeight(from, to, weight) returns true and sets weight to the stored
\* weight exactly when the directed edge (from,to) is stored; otherwise, an
\* absent vertex included, it returns false and weight is what the caller
\* passed; the graph is the same after the call.
C17_GetWeightReadsOnly ==
  [][call'.op = "getWeight"
       => /\ call'.ret <=> <<call'.from, call'.to>> \in StoredPairs(G)
          /\ call'.ret =>
                \E i \in 1..Len(G.edgeMap[call'.from]) :
                  G.edgeMap[call'.from][i] = EdgeData(call'.to, call'.out)
          /\ ~call'.ret => call'.out = call'.weight
          /\ G' = G]_vars

\* getWeight(a, b) has just returned false with both vertices present and
\* the reverse edge (b,a) stored
C17_Witness ==
  /\ call.op = "getWeight" /\ ~call.ret
  /\ HasVertex(G, call.from) /\ HasVertex(G, call.to)
  /\ <<call.to, call.from>> \in StoredPairs(G)
  /\ call.out = call.weight

(***************************************************************************)
(* Properties of the graph main builds                                     *)
(***************************************************************************)
\* C18: once the graph is built, for every footway and every two consecutive
\* nodes n1, n2 of it both edges (n1,n2) and (n2,n1) are in the graph with the
\* distance between the coordinates of n1 and n2 as their weight; so the
\* graph is symmetric.  The same holds during the build for the footways
\* already added.
C18_FootwayEdgesBothWays ==
  main.pc \in {"edges", "built"} =>
    /\ \A k \in 1..main.i - 1 : \A j \in 1..Len(Footways[k].Nodes) - 1 :
          LET n1 == Footways[k].Nodes[j]
              n2 == Footways[k].Nodes[j + 1]
              geo == distBetween2Points(Nodes[n1].Lat, Nodes[n1].Lon, Nodes[n2].Lat, Nodes[n2].Lon)
          IN /\ getWeight(G, n1, n2, -1) = [ret |-> TRUE, weight |-> geo]
             /\ getWeight(G, n2, n1, -1) = [ret |-> TRUE, weight |-> geo]
    /\ \A a, b \in VertexSet(G) : getWeight(G, a, b, -1) = getWeight(G, b, a, -1)

\* the graph is built from a footway of three nodes and a second footway
\* that runs over two of them again
C18_Witness ==
  /\ main.pc = "built"
  /\ Len(Footways) = 2
  /\ Len(Footways[1].Nodes) = 3 /\ Len(Footways[2].Nodes) = 2
  /\ NumEdges(G) = 4

====
